---- MODULE Spec2Model ----
(***************************************************************************)
(* State-machine model of train_gpt2.py: the GPT forward precondition, the *)
(* autoregressive generate loop, weight tying and the pretrained load, and *)
(* the binary writers (parameter checkpoint, debug state, tokenizer).      *)
(*                                                                         *)
(* Each component has its own specification (SpecGen, SpecFwd, SpecLoad,   *)
(* SpecSer, SpecTok, SpecBatch, SpecMain) over one shared set of           *)
(* variables; a specification                                              *)
(* leaves the variables of the other components at their idle values.      *)
(***************************************************************************)
EXTENDS Integers, Sequences, FiniteSets, TLC

VARIABLES
    config,      \* GPTConfig: block_size, vocab_size, n_layer, n_head, n_embd
    \* ---- GPT.generate
    gen_args,    \* arguments of the call: idx0, max_new_tokens, temperature, top_k
    idx,         \* the running sequence (one batch row)
    idx_cond,    \* the window handed to the forward pass
    logits,      \* logits of the final time step (after scaling / masking)
    gen_step,    \* number of completed loop iterations
    gpc,         \* position inside generate
    \* ---- GPT.forward
    fwd_in,      \* arguments of the call: b, t, targets given or not
    fpc,         \* position inside forward
    fwd_trace,   \* the computations performed so far, in order
    fwd_out,     \* what forward returned
    \* ---- GPT.__init__ / from_pretrained / optimizer
    sd_of,       \* state_dict of the model: key -> storage id
    storage,     \* storage id -> [shape, val]
    sd_hf,       \* the external checkpoint: sequence of [key, shape, val]
    lpc,         \* position inside from_pretrained
    load_k,      \* index of the next external key to copy
    load_ret,    \* what from_pretrained returned
    opt_steps,   \* optimizer steps taken after the load
    \* ---- write_model / write_state
    ser_in,      \* batch extents B, T of the debug batch
    has_grad,    \* backward has populated param.grad
    model_file,  \* parameter checkpoint file: header and body records
    state_file,  \* debug state file: header and body records
    \* ---- write_tokenizer
    enc,         \* the tokenizer: token id -> byte string
    tok_file,    \* tokenizer file: header and body bytes
    tok_i,       \* loop index of write_tokenizer
    tpc,         \* position inside write_tokenizer
    \* ---- get_batch
    tokens,      \* the flat token buffer
    batch_in,    \* B and T of the run
    batch_i,     \* the generator's start index i
    batch_xy,    \* the batch handed out by the last next(): x and y
    bpc,         \* position inside the generator
    \* ---- __main__
    args,        \* write_tensors, inference_only, num_iterations
    mpc,         \* position inside the driver
    main_iter,   \* loop index of the training loop
    events       \* what the run has done so far, in order

gen_vars  == <<gen_args, idx, idx_cond, logits, gen_step, gpc>>
fwd_vars  == <<fwd_in, fpc, fwd_trace, fwd_out>>
load_vars == <<sd_of, storage, sd_hf, lpc, load_k, load_ret, opt_steps>>
ser_vars  == <<ser_in, has_grad, model_file, state_file>>
tok_vars  == <<enc, tok_file, tok_i, tpc>>
batch_vars == <<tokens, batch_in, batch_i, batch_xy, bpc>>
main_vars == <<args, mpc, main_iter, events>>
vars == <<config, gen_vars, fwd_vars, load_vars, ser_vars, tok_vars, batch_vars, main_vars>>

-----------------------------------------------------------------------------
(* Bounds of the model *)
MaxBlockSize == 2
MaxVocab == 2
MaxCond == 3
MaxNewTokens == 3
MaxLogit == 1
MaxTemperature == 2
MaxLayer == 3
MaxBatch == 2
MaxSeqLen == 4
MaxStoredVal == 1
MaxOptSteps == 2
MaxTokens == 3

(* Program constants *)
NoTopK == -1
NegInf == -1000
MAGIC_MODEL == 20240326
MAGIC_STATE == 20240327
MAGIC_TOKENIZER == 20240328
HEADER_INTS == 256
MAX_TOKEN_BYTES == 256

Min(a, b) == IF a <= b THEN a ELSE b

\* the last n elements of s (s[-n:] for 1 <= n; the whole of s when n >= Len(s))
LastN(s, n) == IF n >= Len(s) THEN s ELSE SubSeq(s, Len(s) - n + 1, Len(s))

-----------------------------------------------------------------------------
(* Idle values of each component *)
NoFile == [written |-> FALSE, header |-> <<>>, body |-> <<>>]
NoBatch == [x |-> <<>>, y |-> <<>>]
NoOutput == [returned |-> FALSE, logits_shape |-> <<>>, has_loss |-> FALSE]

GenIdle ==
    /\ gen_args = [idx0 |-> <<>>, max_new_tokens |-> 0, temperature |-> 1, top_k |-> NoTopK]
    /\ idx = <<>> /\ idx_cond = <<>> /\ logits = <<>> /\ gen_step = 0 /\ gpc = "idle"
FwdIdle ==
    /\ fwd_in = [b |-> 0, t |-> 0, targets |-> FALSE]
    /\ fpc = "idle" /\ fwd_trace = <<>> /\ fwd_out = NoOutput
LoadIdle ==
    /\ sd_of = <<>> /\ storage = <<>> /\ sd_hf = <<>> /\ lpc = "idle"
    /\ load_k = 0 /\ load_ret = FALSE /\ opt_steps = 0
SerIdle ==
    /\ ser_in = [B |-> 0, T |-> 0] /\ has_grad = FALSE
    /\ model_file = <<>> /\ state_file = NoFile
TokIdle ==
    /\ enc = <<>> /\ tok_file = NoFile /\ tok_i = 0 /\ tpc = "idle"
BatchIdle ==
    /\ tokens = <<>> /\ batch_in = [B |-> 0, T |-> 0] /\ batch_i = 0
    /\ batch_xy = NoBatch /\ bpc = "idle"
MainIdle ==
    /\ args = [write_tensors |-> 0, inference_only |-> 0, num_iterations |-> 0]
    /\ mpc = "idle" /\ main_iter = 0 /\ events = <<>>

-----------------------------------------------------------------------------
(* GPT.forward *)

\* a precondition that lets one token too many through
ForwardAcceptsOneMore(t, block_size) == t <= block_size + 1

\* assert t <= self.config.block_size
ForwardAccepts(t, block_size) == t <= block_size

FwdFrame == UNCHANGED <<config, gen_vars, load_vars, ser_vars, tok_vars, batch_vars, main_vars>>

FwdInit ==
    /\ config \in [block_size : 1 .. MaxBlockSize, vocab_size : {MaxVocab}, n_layer : 1 .. MaxLayer,
                 n_head : {1}, n_embd : {2}]
    /\ fwd_in \in [b : 1 .. MaxBatch, t : 0 .. MaxSeqLen, targets : BOOLEAN]
    /\ fpc = "assert" /\ fwd_trace = <<>> /\ fwd_out = NoOutput
    /\ GenIdle /\ LoadIdle /\ SerIdle /\ TokIdle /\ BatchIdle /\ MainIdle

\* b, t = idx.size(); assert t <= block_size
FwdAssert ==
    /\ fpc = "assert"
    /\ fpc' = IF ForwardAccepts(fwd_in.t, config.block_size) THEN "embed" ELSE "assertion_error"
    /\ UNCHANGED <<fwd_in, fwd_trace, fwd_out>>
    /\ FwdFrame

\* tok_emb = wte(idx); pos_emb = wpe(pos): wpe has block_size rows
FwdEmbed ==
    /\ fpc = "embed"
    /\ IF fwd_in.t <= config.block_size
       THEN /\ fwd_trace' = fwd_trace \o <<"wte", "wpe">>
            /\ fpc' = "blocks"
       ELSE /\ fwd_trace' = Append(fwd_trace, "wte")
            /\ fpc' = "index_error"
    /\ UNCHANGED <<fwd_in, fwd_out>>
    /\ FwdFrame

\* for block in self.transformer.h: x = block(x); x = ln_f(x)
FwdBlocks ==
    /\ fpc = "blocks"
    /\ fwd_trace' = fwd_trace \o [i \in 1 .. config.n_layer |-> "block"] \o <<"ln_f">>
    /\ fpc' = "head"
    /\ UNCHANGED <<fwd_in, fwd_out>>
    /\ FwdFrame

\* lm_head on every position and the loss, or lm_head on the last position only
FwdHead ==
    /\ fpc = "head"
    /\ IF fwd_in.targets
       THEN /\ fwd_trace' = fwd_trace \o <<"lm_head", "loss">>
            /\ fwd_out' = [returned |-> TRUE,
                           logits_shape |-> <<fwd_in.b, fwd_in.t, config.vocab_size>>,
                           has_loss |-> TRUE]
            /\ fpc' = "returned"
       ELSE IF fwd_in.t = 0
       THEN \* x[:, [-1], :] on an empty time dimension
            /\ fpc' = "index_error"
            /\ UNCHANGED <<fwd_trace, fwd_out>>
       ELSE /\ fwd_trace' = Append(fwd_trace, "lm_head")
            /\ fwd_out' = [returned |-> TRUE,
                           logits_shape |-> <<fwd_in.b, 1, config.vocab_size>>,
                           has_loss |-> FALSE]
            /\ fpc' = "returned"
    /\ UNCHANGED fwd_in
    /\ FwdFrame

FwdNext == FwdAssert \/ FwdEmbed \/ FwdBlocks \/ FwdHead

SpecFwd == FwdInit /\ [][FwdNext]_vars

\* C3: a forward pass with T > block_size stops at the assertion, before any
\* embedding lookup, layer, logits or loss is computed, and returns nothing;
\* a forward pass with T <= block_size never raises that assertion.
C3_ForwardFailsFast ==
    /\ (fwd_in.t > config.block_size /\ fpc \notin {"idle", "assert"}) =>
          /\ fpc = "assertion_error"
          /\ fwd_trace = <<>>
          /\ fwd_out = NoOutput
    /\ (fwd_in.t <= config.block_size) => fpc # "assertion_error"
    /\ fwd_out.returned =>
          /\ fwd_in.t <= config.block_size
          /\ fwd_out.logits_shape[2] \in {fwd_in.t, 1}

C3_Witness ==
    /\ fpc = "assertion_error"
    /\ fwd_in.t = config.block_size + 1
    /\ fwd_trace = <<>>

-----------------------------------------------------------------------------
(* GPT.generate *)
Vocab == 0 .. (config.vocab_size - 1)

\* a crop that is off by one token
CropOffByOne(s, block_size) == IF Len(s) <= block_size + 1 THEN s ELSE LastN(s, block_size)

\* idx_cond = idx if idx.size(1) <= block_size else idx[:, -block_size:]
Crop(s, block_size) == IF Len(s) <= block_size THEN s ELSE LastN(s, block_size)

\* logits[:, -1, :] / temperature: a rounding division, monotone but not injective
Scale(l, temperature) == [t \in DOMAIN l |-> l[t] \div temperature]

\* v[:, [-1]] of torch.topk(logits, k): the k-th largest value, with multiplicity
KthLargest(l, k) ==
    CHOOSE x \in {l[t] : t \in DOMAIN l} :
        /\ Cardinality({t \in DOMAIN l : l[t] > x}) < k
        /\ Cardinality({t \in DOMAIN l : l[t] >= x}) >= k

\* logits[logits < v[:, [-1]]] = -inf, with k = min(top_k, logits.size(-1))
TopKMask(l, top_k) ==
    IF top_k = NoTopK THEN l
    ELSE LET v == KthLargest(l, Min(top_k, Cardinality(DOMAIN l)))
         IN [t \in DOMAIN l |-> IF l[t] < v THEN NegInf ELSE l[t]]

\* the tokens torch.multinomial can draw: those with non-zero softmax probability
Support(l) == {t \in DOMAIN l : l[t] # NegInf}

\* torch.cat((idx, idx_next), dim=1)
Cat(s, tok) == Append(s, tok)

\* a loop that stops one iteration early
LoopStopsEarly(step, max_new_tokens) == step < max_new_tokens - 1

\* for _ in range(max_new_tokens)
LoopContinues(step, max_new_tokens) == step < max_new_tokens

GenFrame == UNCHANGED <<config, fwd_vars, load_vars, ser_vars, tok_vars, batch_vars, main_vars>>

GenInit ==
    /\ config \in [block_size : 1 .. MaxBlockSize, vocab_size : {MaxVocab}, n_layer : {1},
                 n_head : {1}, n_embd : {2}]
    /\ \E n \in 1 .. MaxCond, first \in 0 .. (MaxVocab - 1) :
         gen_args \in [idx0 : {[i \in 1 .. n |-> (first + i) % MaxVocab]},
                       max_new_tokens : 0 .. MaxNewTokens,
                       temperature : 1 .. MaxTemperature,
                       top_k : {NoTopK, 1, 2, MaxVocab + 1}]
    /\ idx = gen_args.idx0
    /\ idx_cond = <<>> /\ logits = <<>> /\ gen_step = 0 /\ gpc = "loop"
    /\ FwdIdle /\ LoadIdle /\ SerIdle /\ TokIdle /\ BatchIdle /\ MainIdle

GenCrop ==
    /\ gpc = "loop"
    /\ LoopContinues(gen_step, gen_args.max_new_tokens)
    /\ idx_cond' = Crop(idx, config.block_size)
    /\ gpc' = "cropped"
    /\ UNCHANGED <<gen_args, idx, logits, gen_step>>
    /\ GenFrame

\* logits, _ = self(idx_cond); the model is any function of the window
GenForward ==
    /\ gpc = "cropped"
    /\ IF ForwardAccepts(Len(idx_cond), config.block_size)
       THEN /\ \E l \in [Vocab -> 0 .. MaxLogit] : logits' = l
            /\ gpc' = "forwarded"
       ELSE /\ gpc' = "error"
            /\ UNCHANGED logits
    /\ UNCHANGED <<gen_args, idx, idx_cond, gen_step>>
    /\ GenFrame

GenMask ==
    /\ gpc = "forwarded"
    /\ logits' = TopKMask(Scale(logits, gen_args.temperature), gen_args.top_k)
    /\ gpc' = "masked"
    /\ UNCHANGED <<gen_args, idx, idx_cond, gen_step>>
    /\ GenFrame

GenSample ==
    /\ gpc = "masked"
    /\ \E idx_next \in Support(logits) : idx' = Cat(idx, idx_next)
    /\ gen_step' = gen_step + 1
    /\ gpc' = "loop"
    /\ UNCHANGED <<gen_args, idx_cond, logits>>
    /\ GenFrame

GenReturn ==
    /\ gpc = "loop"
    /\ ~LoopContinues(gen_step, gen_args.max_new_tokens)
    /\ gpc' = "returned"
    /\ UNCHANGED <<gen_args, idx, idx_cond, logits, gen_step>>
    /\ GenFrame

GenNext == GenCrop \/ GenForward \/ GenMask \/ GenSample \/ GenReturn

SpecGen == GenInit /\ [][GenNext]_vars

-----------------------------------------------------------------------------
(* Claims about GPT.generate *)

\* C1 (state part): generate never fails, the running sequence always has the
\* conditioning as its first t0 tokens followed by one token per completed
\* step, and it returns only when exactly max_new_tokens steps are done.
C1_Inv ==
    /\ gpc # "error"
    /\ gpc # "idle" =>
         /\ Len(idx) = Len(gen_args.idx0) + gen_step
         /\ SubSeq(idx, 1, Len(gen_args.idx0)) = gen_args.idx0
         /\ gen_step <= gen_args.max_new_tokens
    /\ gpc = "returned" =>
         /\ gen_step = gen_args.max_new_tokens
         /\ Len(idx) = Len(gen_args.idx0) + gen_args.max_new_tokens

\* C1 (step part): a step never modifies or removes a token already in the
\* sequence, and adds at most one.
C1_Step ==
    /\ Len(idx') \in {Len(idx), Len(idx) + 1}
    /\ SubSeq(idx', 1, Len(idx)) = idx

\* C1: generate performs exactly max_new_tokens sampling steps and returns the
\* conditioning unchanged followed by max_new_tokens appended tokens, none of
\* which is touched by a later step; running out of iterations is the only
\* way the loop ends (max_new_tokens = 0 returns the conditioning as is).
C1_GenerateLength == []C1_Inv /\ [][C1_Step]_vars

C1_Witness ==
    /\ gpc = "returned"
    /\ gen_args.max_new_tokens >= 2
    /\ Len(idx) = Len(gen_args.idx0) + gen_args.max_new_tokens

\* C2 (state part): the window handed to forward is exactly the most recent
\* min(len(idx), block_size) tokens of the running sequence, and the assert
\* of forward is never hit from inside generate.
C2_Inv ==
    /\ gpc # "error"
    /\ gpc \in {"cropped", "forwarded", "masked"} =>
         /\ Len(idx_cond) = Min(Len(idx), config.block_size)
         /\ Len(idx_cond) <= config.block_size
         /\ \A j \in 1 .. Len(idx_cond) :
              idx_cond[j] = idx[Len(idx) - Len(idx_cond) + j]

\* C2 (step part): taking the window leaves the accumulated sequence alone.
C2_Step == (idx_cond' # idx_cond) => (idx' = idx)

\* C2: in every step, for any conditioning length, forward receives the last
\* min(len, block_size) tokens, its t <= block_size precondition holds, and
\* the truncation never shortens the accumulated sequence.
C2_WindowIsRecentTokens == []C2_Inv /\ [][C2_Step]_vars

C2_Witness ==
    /\ gpc = "forwarded"
    /\ Len(gen_args.idx0) > config.block_size
    /\ gen_step >= 1
    /\ Len(idx_cond) = config.block_size
    /\ Len(idx) > Len(idx_cond)

\* C10: with top_k = 1 and a positive temperature, after the top-k masking
\* exactly one token keeps non-zero probability, whatever the logits are, so
\* the appended token is determined.
C10_TopOneIsDeterministic ==
    (gpc = "masked" /\ gen_args.top_k = 1 /\ gen_args.temperature >= 1)
        => Cardinality(Support(logits)) = 1

-----------------------------------------------------------------------------
(* Parameter names and shapes of the GPT module tree.  A key is              *)
(* <<scope, layer, name>>: "transformer.h.{layer}.{name}" inside a Block,   *)
(* layer NoLayer elsewhere; k.endswith("." + w) is then k[3] = w.           *)
NoLayer == -1
Key(scope, layer, name) == <<scope, layer, name>>
WTE == Key("transformer", NoLayer, "wte.weight")
WPE == Key("transformer", NoLayer, "wpe.weight")
LNF_W == Key("transformer", NoLayer, "ln_f.weight")
LNF_B == Key("transformer", NoLayer, "ln_f.bias")
LM_HEAD == Key("", NoLayer, "lm_head.weight")

\* state_dict() order of one Block: parameters and the registered mask buffer
BlockStateNames ==
    <<"ln_1.weight", "ln_1.bias", "attn.bias",
      "attn.c_attn.weight", "attn.c_attn.bias", "attn.c_proj.weight", "attn.c_proj.bias",
      "ln_2.weight", "ln_2.bias",
      "mlp.c_fc.weight", "mlp.c_fc.bias", "mlp.c_proj.weight", "mlp.c_proj.bias">>

BlockKeys(i) == [j \in 1 .. Len(BlockStateNames) |-> Key("transformer.h", i, BlockStateNames[j])]

RECURSIVE AllBlockKeys(_)
AllBlockKeys(L) == IF L = 0 THEN <<>> ELSE AllBlockKeys(L - 1) \o BlockKeys(L - 1)

\* model.state_dict().keys(): wte, wpe, the blocks, ln_f, lm_head
StateDictKeys(cfg) == <<WTE, WPE>> \o AllBlockKeys(cfg.n_layer) \o <<LNF_W, LNF_B, LM_HEAD>>

Range(s) == {s[i] : i \in DOMAIN s}

\* shape of each entry of the state_dict, from the constructors
ParamShape(k, cfg) ==
    LET C == cfg.n_embd IN
    CASE k = WTE \/ k = LM_HEAD -> <<cfg.vocab_size, C>>
      [] k = WPE -> <<cfg.block_size, C>>
      [] k[3] = "attn.bias" -> <<1, 1, cfg.block_size, cfg.block_size>>
      [] k[3] = "attn.c_attn.weight" -> <<3 * C, C>>
      [] k[3] = "attn.c_attn.bias" -> <<3 * C>>
      [] k[3] = "attn.c_proj.weight" -> <<C, C>>
      [] k[3] = "mlp.c_fc.weight" -> <<4 * C, C>>
      [] k[3] = "mlp.c_fc.bias" -> <<4 * C>>
      [] k[3] = "mlp.c_proj.weight" -> <<C, 4 * C>>
      [] OTHER -> <<C>>

\* tensor.shape[::-1]
Reverse(sh) == [i \in 1 .. Len(sh) |-> sh[Len(sh) + 1 - i]]

\* position of key k in the sequence ks
IndexOf(k, ks) == CHOOSE i \in DOMAIN ks : ks[i] = k

\* a construction that allocates the embedding and the output projection apart
UntiedStorageOf(k, ks) == IndexOf(k, ks)

\* GPT.__init__: every entry has its own storage, except that
\* self.transformer.wte.weight = self.lm_head.weight makes the two names one tensor
StorageOf(k, ks) == IF k = WTE THEN IndexOf(LM_HEAD, ks) ELSE IndexOf(k, ks)

-----------------------------------------------------------------------------
(* GPT.from_pretrained and the optimizer *)
LoadConfig == [block_size |-> 2, vocab_size |-> 3, n_layer |-> 1, n_head |-> 1, n_embd |-> 2]

\* the four Conv1D weight kinds of the external checkpoint
transposed == {"attn.c_attn.weight", "attn.c_proj.weight", "mlp.c_fc.weight", "mlp.c_proj.weight"}

IsTransposed(k) == k[3] \in transposed

\* tensor.t(): swaps the two axes, so the memory layout changes orientation
T(layout) == IF layout = "in_out" THEN "out_in" ELSE "in_out"

\* [k for k in keys if not k.endswith(suffix)]
FilterOut(ks, suffix) == SelectSeq(ks, LAMBDA k : k[3] # suffix)

\* sd_keys: the model's keys without the mask buffer
SdKeys == FilterOut(StateDictKeys(config), "attn.bias")

HfKeySeq == [i \in DOMAIN sd_hf |-> sd_hf[i].key]

\* sd_keys_hf: the external keys without masked_bias and bias buffers
SdKeysHf == FilterOut(FilterOut(HfKeySeq, "attn.masked_bias"), "attn.bias")

HfEntry(k) == sd_hf[CHOOSE i \in DOMAIN sd_hf : sd_hf[i].key = k]

\* a load that does not compare the number of keys
KeyCountUnchecked(a, b) == TRUE

\* assert len(sd_keys_hf) == len(sd_keys)
KeyCountOk(a, b) == Len(a) = Len(b)

\* the assert on the shapes, ahead of each copy
ShapeOk(k, hf_shape, shape) ==
    IF IsTransposed(k) THEN Reverse(hf_shape) = shape ELSE hf_shape = shape

\* sd[k].copy_(...): the destination keeps its shape and takes the source's values
Copied(k, dst, src) ==
    [shape |-> dst.shape, val |-> src.val,
     layout |-> IF IsTransposed(k) THEN T(src.layout) ELSE src.layout]

\* what a read through the name k returns
Read(k) == storage[sd_of[k]]


(* The external checkpoint: the reference layout, perturbed in one key, one  *)
(* extra entry and one shape at most.                                        *)
NoKey == Key("", NoLayer, "")
ExtraKey == Key("transformer", NoLayer, "extra.weight")

HfShape(k, cfg) == IF IsTransposed(k) THEN Reverse(ParamShape(k, cfg)) ELSE ParamShape(k, cfg)

Grown(sh) == [sh EXCEPT ![1] = @ + 1]

HfEntryFor(k, bad, how, v_wte, v_head) ==
    [key |-> k,
     shape |-> IF k # bad THEN HfShape(k, LoadConfig)
               ELSE IF how = "reversed" THEN Reverse(HfShape(k, LoadConfig))
               ELSE Grown(HfShape(k, LoadConfig)),
     val |-> IF k = WTE THEN v_wte ELSE IF k = LM_HEAD THEN v_head ELSE 1,
     layout |-> IF IsTransposed(k) THEN "in_out" ELSE "out_in"]

\* keys of the reference checkpoint: the same names, with both mask buffers per block
HfReferenceKeys(buffers) ==
    LET ks == StateDictKeys(LoadConfig)
        withMasked == <<ks[1], ks[2], Key("transformer.h", 0, "attn.masked_bias")>>
                          \o SubSeq(ks, 3, Len(ks))
    IN IF buffers THEN withMasked ELSE FilterOut(ks, "attn.bias")

HfCheckpoint(drop, extra, bad, how, buffers, v_wte, v_head) ==
    LET ks == SelectSeq(HfReferenceKeys(buffers), LAMBDA k : k # drop)
        body == [i \in DOMAIN ks |-> HfEntryFor(ks[i], bad, how, v_wte, v_head)]
        e == [key |-> ExtraKey, shape |-> <<LoadConfig.n_embd>>, val |-> 1, layout |-> "out_in"]
    IN CASE extra = "front" -> <<e>> \o body
         [] extra = "end" -> body \o <<e>>
         [] OTHER -> body

LoadFrame == UNCHANGED <<config, gen_vars, fwd_vars, ser_vars, tok_vars, batch_vars, main_vars>>

\* model = GPT(config); sd = model.state_dict(); sd_hf = model_hf.state_dict()
LoadInit ==
    /\ config = LoadConfig
    /\ LET ks == StateDictKeys(LoadConfig) IN
         /\ sd_of = [k \in Range(ks) |-> StorageOf(k, ks)]
         /\ storage = [i \in DOMAIN ks |->
                          [shape |-> ParamShape(ks[i], LoadConfig), val |-> 0, layout |-> "out_in"]]
    /\ \E drop \in {NoKey} \cup Range(FilterOut(StateDictKeys(LoadConfig), "attn.bias")),
          extra \in {"none", "front", "end"},
          bad \in {NoKey} \cup Range(FilterOut(StateDictKeys(LoadConfig), "attn.bias")),
          how \in {"reversed", "grown"},
          buffers \in BOOLEAN,
          v_wte \in 0 .. MaxStoredVal, v_head \in 0 .. MaxStoredVal :
            sd_hf = HfCheckpoint(drop, extra, bad, how, buffers, v_wte, v_head)
    /\ lpc = "count" /\ load_k = 1 /\ load_ret = FALSE /\ opt_steps = 0
    /\ GenIdle /\ FwdIdle /\ SerIdle /\ TokIdle /\ BatchIdle /\ MainIdle

\* assert len(sd_keys_hf) == len(sd_keys)
LoadCount ==
    /\ lpc = "count"
    /\ lpc' = IF KeyCountOk(SdKeysHf, SdKeys) THEN "copy" ELSE "assertion_error"
    /\ UNCHANGED <<sd_of, storage, sd_hf, load_k, load_ret, opt_steps>>
    /\ LoadFrame

\* one iteration of: for k in sd_keys_hf
LoadCopy ==
    /\ lpc = "copy"
    /\ load_k <= Len(SdKeysHf)
    /\ LET k == SdKeysHf[load_k] IN
         IF k \notin DOMAIN sd_of
         THEN /\ lpc' = "key_error"
              /\ UNCHANGED <<storage, load_k>>
         ELSE IF ~ShapeOk(k, HfEntry(k).shape, Read(k).shape)
         THEN /\ lpc' = "assertion_error"
              /\ UNCHANGED <<storage, load_k>>
         ELSE /\ storage' = [storage EXCEPT ![sd_of[k]] = Copied(k, @, HfEntry(k))]
              /\ load_k' = load_k + 1
              /\ lpc' = "copy"
    /\ UNCHANGED <<sd_of, sd_hf, load_ret, opt_steps>>
    /\ LoadFrame

\* return model
LoadReturn ==
    /\ lpc = "copy"
    /\ load_k > Len(SdKeysHf)
    /\ lpc' = "returned"
    /\ load_ret' = TRUE
    /\ UNCHANGED <<sd_of, storage, sd_hf, load_k, opt_steps>>
    /\ LoadFrame

\* optimizer.step(): an in-place update of every distinct parameter tensor;
\* the update of the embedding, the output projection and the position table
\* is any amount, the others move by one
OptimizerStep ==
    /\ lpc = "returned"
    /\ opt_steps < MaxOptSteps
    /\ \E d \in [{sd_of[WTE], sd_of[LM_HEAD], sd_of[WPE]} -> 0 .. MaxStoredVal] :
         storage' = [i \in DOMAIN storage |->
                        [storage[i] EXCEPT !.val =
                            (@ + (IF i \in DOMAIN d THEN d[i] ELSE 1)) % (MaxStoredVal + 1)]]
    /\ opt_steps' = opt_steps + 1
    /\ UNCHANGED <<sd_of, sd_hf, lpc, load_k, load_ret>>
    /\ LoadFrame

LoadNext == LoadCount \/ LoadCopy \/ LoadReturn \/ OptimizerStep

SpecLoad == LoadInit /\ [][LoadNext]_vars


-----------------------------------------------------------------------------
(* Claims about weight tying and the pretrained load *)

\* C4 (state part): a read of the token embedding and a read of the output
\* projection return the same tensor in every state after construction.
C4_Inv == (lpc # "idle") => Read(WTE) = Read(LM_HEAD)

\* C4 (step part): a copy of the load into either name is what a read through
\* both names returns afterwards.
C4_Step ==
    (lpc = "copy" /\ load_k' = load_k + 1 /\ SdKeysHf[load_k] \in {WTE, LM_HEAD}) =>
        /\ Read(WTE)'.val = HfEntry(SdKeysHf[load_k]).val
        /\ Read(LM_HEAD)'.val = HfEntry(SdKeysHf[load_k]).val

\* C4: weight tying is aliasing: transformer.wte.weight and lm_head.weight are
\* one storage, so after any sequence of load copies and optimizer steps a read
\* through either name returns the values written through the other.
C4_WeightTying == []C4_Inv /\ [][C4_Step]_vars

C4_Witness ==
    /\ lpc = "returned"
    /\ opt_steps >= 1
    /\ Read(LM_HEAD).val # HfEntry(LM_HEAD).val
    /\ HfEntry(WTE).val # HfEntry(LM_HEAD).val

LoadErrors == {"assertion_error", "key_error"}

\* the names of the two checkpoints, each without its mask buffers
C9_NamesMatch == Range(SdKeysHf) = Range(SdKeys)

\* every external tensor has the shape of the model's tensor of that name,
\* the four linear weight kinds after reversing their axes
C9_ShapesMatch ==
    \A i \in DOMAIN sd_hf :
        LET e == sd_hf[i] IN
        e.key \in Range(SdKeys) =>
            ParamShape(e.key, config) =
                (IF e.key[3] \in {"attn.c_attn.weight", "attn.c_proj.weight",
                                  "mlp.c_fc.weight", "mlp.c_proj.weight"}
                 THEN Reverse(e.shape) ELSE e.shape)

\* C9: from_pretrained returns a model only if the two name sets are equal and
\* every shape matches (linear weights compared and copied transposed); with
\* any mismatch the load ends in an error and returns no model.
C9_LoadIsAllOrNothing ==
    /\ lpc = "returned" =>
          /\ C9_NamesMatch /\ C9_ShapesMatch
          /\ load_ret = TRUE
          /\ opt_steps = 0 =>
                \A k \in Range(SdKeys) :
                    IsTransposed(k) => /\ Read(k).layout = "out_in"
                                       /\ Read(k).val = HfEntry(k).val
    /\ (lpc # "idle" /\ ~(C9_NamesMatch /\ C9_ShapesMatch)) =>
          /\ lpc # "returned"
          /\ load_ret = FALSE
          /\ ~ENABLED LoadNext => lpc \in LoadErrors
    /\ lpc \in LoadErrors => load_ret = FALSE

C9_Witness ==
    /\ lpc = "key_error"
    /\ Len(SdKeysHf) = Len(SdKeys)
    /\ load_k > 1


-----------------------------------------------------------------------------
(* write_fp32 / write_bf16 / write_tensors_* / write_model / write_state *)
RECURSIVE Prod(_)
Prod(sh) == IF sh = <<>> THEN 1 ELSE sh[1] * Prod(Tail(sh))

\* number of elements of the tensor of a given name
Numel(k, cfg) == Prod(ParamShape(k, cfg))

\* model.named_parameters(): no buffers, and the tied tensor once, under the
\* first name it is reached by (transformer.wte.weight)
NamedParameters(cfg) ==
    SelectSeq(StateDictKeys(cfg), LAMBDA k : k[3] # "attn.bias" /\ k # LM_HEAD)

\* {name: param.cpu() ...} and {name: param.grad.cpu() ...}
TensorDict(cfg, what) ==
    [k \in Range(NamedParameters(cfg)) |-> [what |-> what, name |-> k, numel |-> Numel(k, cfg)]]

\* one write of a tensor in a given storage precision
WriteFp32(t) == [what |-> t.what, name |-> t.name, numel |-> t.numel,
                 dtype |-> "float32", nbytes |-> 4 * t.numel]
WriteBf16(t) == [what |-> t.what, name |-> t.name, numel |-> t.numel,
                 dtype |-> "bfloat16", nbytes |-> 2 * t.numel]
WriteInt32(what, numel) == [what |-> what, name |-> NoKey, numel |-> numel,
                            dtype |-> "int32", nbytes |-> 4 * numel]

\* for i in range(L): write(model_tensors[f"transformer.h.{i}.{name}"], file)
Fp32Layers(model_tensors, L, name) ==
    [i \in 1 .. L |-> WriteFp32(model_tensors[Key("transformer.h", i - 1, name)])]
Bf16Layers(model_tensors, L, name) ==
    [i \in 1 .. L |-> WriteBf16(model_tensors[Key("transformer.h", i - 1, name)])]

\* the same tensors written one layer after the other
WriteTensorsFp32LayerMajor(model_tensors, L) ==
    LET OneLayer(i) ==
            [j \in 1 .. 8 |->
                WriteFp32(model_tensors[Key("transformer.h", i,
                    <<"attn.c_attn.weight", "attn.c_attn.bias", "attn.c_proj.weight",
                      "attn.c_proj.bias", "mlp.c_fc.weight", "mlp.c_fc.bias",
                      "mlp.c_proj.weight", "mlp.c_proj.bias">>[j])])]
        OneLayerNorms(i) ==
            [j \in 1 .. 4 |->
                WriteFp32(model_tensors[Key("transformer.h", i,
                    <<"ln_1.weight", "ln_1.bias", "ln_2.weight", "ln_2.bias">>[j])])]
        F[n \in 0 .. L] == IF n = 0 THEN <<>> ELSE F[n - 1] \o OneLayer(n - 1)
        G[n \in 0 .. L] == IF n = 0 THEN <<>> ELSE G[n - 1] \o OneLayerNorms(n - 1)
    IN <<WriteFp32(model_tensors[WTE]), WriteFp32(model_tensors[WPE])>>
       \o F[L] \o G[L]
       \o <<WriteFp32(model_tensors[LNF_W]), WriteFp32(model_tensors[LNF_B])>>

\* write_tensors_fp32
WriteTensorsFp32(model_tensors, L) ==
    <<WriteFp32(model_tensors[WTE]), WriteFp32(model_tensors[WPE])>>
    \o Fp32Layers(model_tensors, L, "attn.c_attn.weight")
    \o Fp32Layers(model_tensors, L, "attn.c_attn.bias")
    \o Fp32Layers(model_tensors, L, "attn.c_proj.weight")
    \o Fp32Layers(model_tensors, L, "attn.c_proj.bias")
    \o Fp32Layers(model_tensors, L, "mlp.c_fc.weight")
    \o Fp32Layers(model_tensors, L, "mlp.c_fc.bias")
    \o Fp32Layers(model_tensors, L, "mlp.c_proj.weight")
    \o Fp32Layers(model_tensors, L, "mlp.c_proj.bias")
    \o Fp32Layers(model_tensors, L, "ln_1.weight")
    \o Fp32Layers(model_tensors, L, "ln_1.bias")
    \o Fp32Layers(model_tensors, L, "ln_2.weight")
    \o Fp32Layers(model_tensors, L, "ln_2.bias")
    \o <<WriteFp32(model_tensors[LNF_W]), WriteFp32(model_tensors[LNF_B])>>

\* a reduced-precision writer that puts the layernorms ahead of the matrices
WriteTensorsBf16NormsFirst(model_tensors, L) ==
    <<WriteBf16(model_tensors[WTE]), WriteBf16(model_tensors[WPE])>>
    \o Fp32Layers(model_tensors, L, "ln_1.weight")
    \o Fp32Layers(model_tensors, L, "ln_1.bias")
    \o Fp32Layers(model_tensors, L, "ln_2.weight")
    \o Fp32Layers(model_tensors, L, "ln_2.bias")
    \o Bf16Layers(model_tensors, L, "attn.c_attn.weight")
    \o Bf16Layers(model_tensors, L, "attn.c_attn.bias")
    \o Bf16Layers(model_tensors, L, "attn.c_proj.weight")
    \o Bf16Layers(model_tensors, L, "attn.c_proj.bias")
    \o Bf16Layers(model_tensors, L, "mlp.c_fc.weight")
    \o Bf16Layers(model_tensors, L, "mlp.c_fc.bias")
    \o Bf16Layers(model_tensors, L, "mlp.c_proj.weight")
    \o Bf16Layers(model_tensors, L, "mlp.c_proj.bias")
    \o <<WriteFp32(model_tensors[LNF_W]), WriteFp32(model_tensors[LNF_B])>>

\* write_tensors_bf16
WriteTensorsBf16(model_tensors, L) ==
    <<WriteBf16(model_tensors[WTE]), WriteBf16(model_tensors[WPE])>>
    \o Bf16Layers(model_tensors, L, "attn.c_attn.weight")
    \o Bf16Layers(model_tensors, L, "attn.c_attn.bias")
    \o Bf16Layers(model_tensors, L, "attn.c_proj.weight")
    \o Bf16Layers(model_tensors, L, "attn.c_proj.bias")
    \o Bf16Layers(model_tensors, L, "mlp.c_fc.weight")
    \o Bf16Layers(model_tensors, L, "mlp.c_fc.bias")
    \o Bf16Layers(model_tensors, L, "mlp.c_proj.weight")
    \o Bf16Layers(model_tensors, L, "mlp.c_proj.bias")
    \o Fp32Layers(model_tensors, L, "ln_1.weight")
    \o Fp32Layers(model_tensors, L, "ln_1.bias")
    \o Fp32Layers(model_tensors, L, "ln_2.weight")
    \o Fp32Layers(model_tensors, L, "ln_2.bias")
    \o <<WriteFp32(model_tensors[LNF_W]), WriteFp32(model_tensors[LNF_B])>>

\* header = torch.zeros(256, dtype=torch.int32) with the leading fields set;
\* field n of the code is element n + 1 here
Header(fields) == [i \in 1 .. HEADER_INTS |-> IF i <= Len(fields) THEN fields[i] ELSE 0]

\* version = {"float32": 1, "bfloat16": 2}[dtype]
Version(dtype) == IF dtype = "float32" THEN 1 ELSE 2

\* write_model
ModelFile(cfg, dtype) ==
    [written |-> TRUE,
     header |-> Header(<<MAGIC_MODEL, Version(dtype), cfg.block_size, cfg.vocab_size,
                         cfg.n_layer, cfg.n_head, cfg.n_embd>>),
     body |-> IF dtype = "float32"
              THEN WriteTensorsFp32(TensorDict(cfg, "param"), cfg.n_layer)
              ELSE WriteTensorsBf16(TensorDict(cfg, "param"), cfg.n_layer)]

\* a debug state whose gradients follow the order of named_parameters()
StateBodyDictOrder(cfg, B, Tlen) ==
    <<WriteInt32("x", B * Tlen), WriteInt32("y", B * Tlen),
      WriteFp32([what |-> "logits", name |-> NoKey, numel |-> B * Tlen * cfg.vocab_size]),
      WriteFp32([what |-> "loss", name |-> NoKey, numel |-> 1])>>
    \o [i \in DOMAIN NamedParameters(cfg) |->
            WriteFp32(TensorDict(cfg, "grad")[NamedParameters(cfg)[i]])]

\* body of write_state: x, y, logits, loss, then write_tensors_fp32(grads, ...)
StateBody(cfg, B, Tlen) ==
    <<WriteInt32("x", B * Tlen), WriteInt32("y", B * Tlen),
      WriteFp32([what |-> "logits", name |-> NoKey, numel |-> B * Tlen * cfg.vocab_size]),
      WriteFp32([what |-> "loss", name |-> NoKey, numel |-> 1])>>
    \o WriteTensorsFp32(TensorDict(cfg, "grad"), cfg.n_layer)

\* write_state
StateFile(cfg, B, Tlen) ==
    [written |-> TRUE,
     header |-> Header(<<MAGIC_STATE, 1, B, Tlen>>),
     body |-> StateBody(cfg, B, Tlen)]

FileNames == {"gpt2_124M.bin", "gpt2_124M_bf16.bin"}

SerFrame == UNCHANGED <<config, gen_vars, fwd_vars, load_vars, tok_vars, batch_vars, main_vars>>

SerInit ==
    /\ config \in [block_size : {MaxBlockSize}, vocab_size : {MaxVocab}, n_layer : 1 .. MaxLayer,
                   n_head : {1}, n_embd : {2}]
    /\ ser_in \in [B : 1 .. MaxBatch, T : 1 .. MaxBlockSize]
    /\ has_grad = FALSE
    /\ model_file = [f \in FileNames |-> NoFile]
    /\ state_file = NoFile
    /\ GenIdle /\ FwdIdle /\ LoadIdle /\ TokIdle /\ BatchIdle /\ MainIdle

\* logits, loss = model(x, y); loss.backward()
SerForwardBackward ==
    /\ ~has_grad
    /\ has_grad' = TRUE
    /\ UNCHANGED <<ser_in, model_file, state_file>>
    /\ SerFrame

WriteModel(filename, dtype) ==
    /\ model_file' = [model_file EXCEPT ![filename] = ModelFile(config, dtype)]
    /\ UNCHANGED <<ser_in, has_grad, state_file>>
    /\ SerFrame

\* param.grad is None until backward has run: building grads then fails
\* before the file is opened
WriteState ==
    /\ has_grad
    /\ state_file' = StateFile(config, ser_in.B, ser_in.T)
    /\ UNCHANGED <<ser_in, has_grad, model_file>>
    /\ SerFrame

WriteModelAny == \E filename \in FileNames, dtype \in {"float32", "bfloat16"} : WriteModel(filename, dtype)

SerNext == SerForwardBackward \/ WriteModelAny \/ WriteState

SpecSer == SerInit /\ [][SerNext]_vars


-----------------------------------------------------------------------------
(* Claims about the parameter checkpoint and the debug state *)
MatrixKinds ==
    <<"attn.c_attn.weight", "attn.c_attn.bias", "attn.c_proj.weight", "attn.c_proj.bias",
      "mlp.c_fc.weight", "mlp.c_fc.bias", "mlp.c_proj.weight", "mlp.c_proj.bias">>
NormKinds == <<"ln_1.weight", "ln_1.bias", "ln_2.weight", "ln_2.bias">>

IsNorm(k) == k[3] \in Range(NormKinds) \cup {"ln_f.weight", "ln_f.bias"}

Names(body) == [i \in DOMAIN body |-> body[i].name]

FullPrecisionFiles == {f \in FileNames : model_file[f].written /\ model_file[f].header[2] = 1}
ReducedPrecisionFiles == {f \in FileNames : model_file[f].written /\ model_file[f].header[2] = 2}

\* every parameter of the model is in the body once
EveryParameterOnce(body) ==
    /\ Range(Names(body)) = Range(NamedParameters(config))
    /\ Len(body) = Cardinality(Range(NamedParameters(config)))
    /\ LM_HEAD \notin Range(Names(body))

\* C5 as stated: after the two embeddings the body goes layer by layer, the
\* eight matrix tensors of layer 0, then those of layer 1, ...; then layer by
\* layer the four normalization tensors; then the final normalization.
C5_LayerByLayer ==
    \A f \in FullPrecisionFiles :
        LET body == model_file[f].body
            L == config.n_layer
        IN /\ Len(body) = 12 * L + 4
           /\ body[1].name = WTE /\ body[2].name = WPE
           /\ \A i \in 0 .. L - 1 :
                /\ \A j \in 1 .. 8 :
                     body[2 + 8 * i + j].name = Key("transformer.h", i, MatrixKinds[j])
                /\ \A j \in 1 .. 4 :
                     body[2 + 8 * L + 4 * i + j].name = Key("transformer.h", i, NormKinds[j])
           /\ body[12 * L + 3].name = LNF_W /\ body[12 * L + 4].name = LNF_B
           /\ EveryParameterOnce(body)

\* C5 (amended): after the two embeddings the body goes kind by kind: for each
\* of the eight matrix tensor kinds in turn, that tensor of every layer in layer
\* order; then the same for ln_1.weight, ln_1.bias, ln_2.weight, ln_2.bias;
\* then the final normalization weight and bias.  Every tensor is float32 and
\* every model parameter is written exactly once (the tied matrix once).
C5_KindByKind ==
    \A f \in FullPrecisionFiles :
        LET body == model_file[f].body
            L == config.n_layer
        IN /\ Len(body) = 12 * L + 4
           /\ body[1].name = WTE /\ body[2].name = WPE
           /\ \A i \in 0 .. L - 1 :
                /\ \A j \in 1 .. 8 :
                     body[2 + L * (j - 1) + i + 1].name = Key("transformer.h", i, MatrixKinds[j])
                /\ \A j \in 1 .. 4 :
                     body[2 + 8 * L + L * (j - 1) + i + 1].name = Key("transformer.h", i, NormKinds[j])
           /\ body[12 * L + 3].name = LNF_W /\ body[12 * L + 4].name = LNF_B
           /\ \A p \in DOMAIN body : body[p].dtype = "float32" /\ body[p].what = "param"
           /\ EveryParameterOnce(body)

C5_Witness ==
    /\ config.n_layer >= 2
    /\ model_file["gpt2_124M.bin"].written
    /\ model_file["gpt2_124M.bin"].header[2] = 1
    /\ model_file["gpt2_124M.bin"].body[4].name = Key("transformer.h", 1, "attn.c_attn.weight")

\* the reduced-precision tensors are one prefix of the body, and the
\* normalization tensors, at full precision, are everything after it
C6_NormsLastAtFullPrecision(body) ==
    /\ \A p \in DOMAIN body :
         /\ IsNorm(body[p].name) <=> body[p].dtype = "float32"
         /\ ~IsNorm(body[p].name) <=> body[p].dtype = "bfloat16"
         /\ body[p].nbytes = (IF IsNorm(body[p].name) THEN 4 ELSE 2) * body[p].numel
    /\ \A p, q \in DOMAIN body :
         (body[p].dtype = "bfloat16" /\ body[q].dtype = "float32") => p < q
    /\ \E p \in DOMAIN body : body[p].dtype = "bfloat16"
    /\ EveryParameterOnce(body)

\* in a full-precision body the normalization tensors of a layer sit among
\* the other tensors of that layer
C6_InterleavedPerLayer(body) ==
    \E p, q \in DOMAIN body : p < q /\ IsNorm(body[p].name) /\ ~IsNorm(body[q].name)

C7_StateFollowsCheckpointOrder ==
    state_file.written =>
        LET h == state_file.header
            body == state_file.body
            n == ser_in.B * ser_in.T
        IN /\ Len(h) = 256
           /\ h[1] = 20240327 /\ h[2] = 1 /\ h[3] = ser_in.B /\ h[4] = ser_in.T
           /\ \A i \in 5 .. 256 : h[i] = 0
           /\ body[1].what = "x" /\ body[1].dtype = "int32" /\ body[1].numel = n
           /\ body[2].what = "y" /\ body[2].dtype = "int32" /\ body[2].numel = n
           /\ body[3].what = "logits" /\ body[3].dtype = "float32"
           /\ body[3].numel = n * config.vocab_size
           /\ body[4].what = "loss" /\ body[4].dtype = "float32" /\ body[4].numel = 1
           /\ \A p \in 5 .. Len(body) : body[p].what = "grad" /\ body[p].dtype = "float32"
           /\ \A f \in FullPrecisionFiles :
                /\ Len(body) = 4 + Len(model_file[f].body)
                /\ \A k \in DOMAIN model_file[f].body :
                     /\ body[4 + k].name = model_file[f].body[k].name
                     /\ body[4 + k].numel = model_file[f].body[k].numel

C7_Witness ==
    /\ state_file.written
    /\ config.n_layer >= 2
    /\ model_file["gpt2_124M.bin"].written
    /\ model_file["gpt2_124M.bin"].header[2] = 1
    /\ ser_in.B * ser_in.T >= 2


-----------------------------------------------------------------------------
(* write_tokenizer *)

\* a byte string of a given length: bytes fill, fill + 1, ... (mod 256)
Bytes(len, fill) == [j \in 1 .. len |-> (fill + j - 1) % 256]

\* byte strings the tokenizer may hold: empty, short, the longest that fits a
\* one-byte length, and the shortest that does not
TokenBytes ==
    {Bytes(len, fill) : len \in {0, 1, 2, MAX_TOKEN_BYTES - 1, MAX_TOKEN_BYTES}, fill \in {0, 2}}

\* n = enc.max_token_value + 1
NumTokens == Len(enc)

\* enc.decode_bytes([i])
DecodeBytes(i) == enc[i + 1]

\* an assert that lets a 256-byte token through
LengthFitsLoose(length) == length <= MAX_TOKEN_BYTES

\* assert length < 256
LengthFits(length) == length < MAX_TOKEN_BYTES

\* a length prefix of two bytes, low byte first
Pack2B(length) == <<length % 256, length \div 256>>

\* struct.pack("<B", length), defined for 0 <= length <= 255
PackB(length) == <<length>>

TokFrame == UNCHANGED <<config, gen_vars, fwd_vars, load_vars, ser_vars, batch_vars, main_vars>>

TokInit ==
    /\ config = LoadConfig
    /\ \E n \in 1 .. MaxTokens : enc \in [1 .. n -> TokenBytes]
    /\ tok_file = NoFile /\ tok_i = 0 /\ tpc = "header"
    /\ GenIdle /\ FwdIdle /\ LoadIdle /\ SerIdle /\ BatchIdle /\ MainIdle

\* file.write(header.numpy().tobytes())
TokHeader ==
    /\ tpc = "header"
    /\ tok_file' = [written |-> FALSE,
                    header |-> Header(<<MAGIC_TOKENIZER, 1, NumTokens>>),
                    body |-> <<>>]
    /\ tpc' = "loop"
    /\ UNCHANGED <<enc, tok_i>>
    /\ TokFrame

\* one iteration of: for i in range(n)
TokRecord ==
    /\ tpc = "loop"
    /\ tok_i < NumTokens
    /\ LET b == DecodeBytes(tok_i)
           length == Len(b)
       IN IF ~LengthFits(length)
          THEN /\ tpc' = "assertion_error"
               /\ UNCHANGED <<tok_file, tok_i>>
          ELSE IF length > 255
          THEN \* struct.pack("<B", ...) refuses a value above 255
               /\ tpc' = "struct_error"
               /\ UNCHANGED <<tok_file, tok_i>>
          ELSE /\ tok_file' = [tok_file EXCEPT !.body = @ \o PackB(length) \o b]
               /\ tok_i' = tok_i + 1
               /\ tpc' = "loop"
    /\ UNCHANGED enc
    /\ TokFrame

\* the loop is exhausted and the file is closed
TokDone ==
    /\ tpc = "loop"
    /\ tok_i = NumTokens
    /\ tok_file' = [tok_file EXCEPT !.written = TRUE]
    /\ tpc' = "done"
    /\ UNCHANGED <<enc, tok_i>>
    /\ TokFrame

TokNext == TokHeader \/ TokRecord \/ TokDone

SpecTok == TokInit /\ [][TokNext]_vars

-----------------------------------------------------------------------------
(* Claims about the tokenizer file *)

\* a reader of length-prefixed records: the byte strings, in file order
RECURSIVE ReadRecords(_)
ReadRecords(body) ==
    IF body = <<>> THEN <<>>
    ELSE IF Len(body) < 1 + body[1] THEN <<<<-1>>>>
    ELSE <<SubSeq(body, 2, 1 + body[1])>> \o ReadRecords(SubSeq(body, 2 + body[1], Len(body)))

RECURSIVE SumOfLengths(_)
SumOfLengths(bs) == IF bs = <<>> THEN 0 ELSE Len(Head(bs)) + SumOfLengths(Tail(bs))

\* C8: when every token is shorter than 256 bytes, the finished file has the
\* header (20240328, 1, n, zeros) and a body of n + sum of token lengths bytes
\* that reads back, record by record, as the n byte strings of the tokenizer
\* in token-id order.
C8_TokenizerRoundTrip ==
    (tpc = "done" /\ \A i \in 1 .. NumTokens : Len(enc[i]) < 256) =>
        /\ tok_file.written
        /\ Len(tok_file.header) = 256
        /\ tok_file.header[1] = 20240328
        /\ tok_file.header[2] = 1
        /\ tok_file.header[3] = NumTokens
        /\ \A i \in 4 .. 256 : tok_file.header[i] = 0
        /\ Len(tok_file.body) = NumTokens + SumOfLengths(enc)
        /\ Len(ReadRecords(tok_file.body)) = NumTokens
        /\ \A i \in 0 .. NumTokens - 1 : ReadRecords(tok_file.body)[i + 1] = DecodeBytes(i)
        /\ \A b \in Range(tok_file.body) : b \in 0 .. 255

C8_Witness ==
    /\ tpc = "done"
    /\ NumTokens >= 3
    /\ Len(enc[1]) = 255
    /\ Len(enc[2]) = 0
    /\ enc[3] = <<2, 3>>


\* the ids, counted from 0, of the tokens too long for a one-byte length
C12_LongTokens == {i \in 0 .. NumTokens - 1 : Len(DecodeBytes(i)) >= 256}

\* C12: if some token is 256 bytes or longer, write_tokenizer stops with the
\* assertion at the first such token: the body holds exactly the records of
\* the tokens before it, nothing of that token or of a later one, and the
\* export never completes, so no length prefix is ever truncated or wrapped.
C12_LongTokenAbortsExport ==
    (tpc # "idle" /\ C12_LongTokens # {}) =>
        LET first == CHOOSE i \in C12_LongTokens : \A j \in C12_LongTokens : i <= j
        IN /\ tpc # "done"
           /\ ~tok_file.written
           /\ tok_i <= first
           /\ ~ENABLED TokNext => tpc = "assertion_error"
           /\ tpc = "assertion_error" =>
                 /\ tok_i = first
                 /\ Len(tok_file.body) = first + SumOfLengths(SubSeq(enc, 1, first))
                 /\ ReadRecords(tok_file.body) = SubSeq(enc, 1, first)
           /\ tpc = "loop" =>
                 /\ ReadRecords(tok_file.body) = SubSeq(enc, 1, tok_i)
                 /\ \A p \in DOMAIN tok_file.body : tok_file.body[p] \in 0 .. 255

C12_Witness ==
    /\ tpc = "assertion_error"
    /\ tok_i = 1
    /\ Len(enc[1]) = 255
    /\ Len(enc[2]) = 256
    /\ NumTokens >= 3
    /\ Len(tok_file.body) = 256


-----------------------------------------------------------------------------
(* get_batch: the generator behind data_iter *)
MaxTokenBuf == 12

\* tokens[a:b] with 0 <= a: Python clips the slice at the end of the buffer
PySlice(s, a, b) ==
    IF a >= Min(b, Len(s)) THEN <<>> ELSE SubSeq(s, a + 1, Min(b, Len(s)))

\* assert B*T+1 <= len(tokens)
EnoughTokens(BT, N) == BT + 1 <= N

\* a wrap test that lets the window reach the very end of the buffer
WrapsTooLate(i, BT, N) == i + BT > N

\* if i + B*T + 1 >= len(tokens): i = 0
WrapsAround(i, BT, N) == i + BT + 1 >= N

\* i += B*T, then the wrap test on the new i
NextStart(i, BT, N) == IF WrapsAround(i + BT, BT, N) THEN 0 ELSE i + BT

\* x = tokens[i:i+B*T]; y = tokens[i+1:i+B*T+1]
Windows(i, BT) == [x |-> PySlice(tokens, i, i + BT), y |-> PySlice(tokens, i + 1, i + BT + 1)]

\* .view(B, T) needs exactly B*T elements
Viewable(w, BT) == Len(w.x) = BT /\ Len(w.y) = BT

BatchFrame == UNCHANGED <<config, gen_vars, fwd_vars, load_vars, ser_vars, tok_vars, main_vars>>

\* data_iter = iter(get_batch()): nothing of the body has run yet
BatchInit ==
    /\ config = LoadConfig
    /\ \E N \in 1 .. MaxTokenBuf : tokens = [j \in 1 .. N |-> j - 1]
    /\ batch_in \in [B : 1 .. MaxBatch, T : 1 .. MaxSeqLen]
    /\ batch_i = 0 /\ batch_xy = NoBatch /\ bpc = "created"
    /\ GenIdle /\ FwdIdle /\ LoadIdle /\ SerIdle /\ TokIdle /\ MainIdle

\* the first next(): the assert, i = 0, and the run up to the first yield
BatchFirstNext ==
    /\ bpc = "created"
    /\ LET BT == batch_in.B * batch_in.T IN
         IF ~EnoughTokens(BT, Len(tokens))
         THEN /\ bpc' = "assertion_error"
              /\ UNCHANGED <<batch_i, batch_xy>>
         ELSE /\ batch_i' = 0
              /\ IF Viewable(Windows(0, BT), BT)
                 THEN bpc' = "yielded" /\ batch_xy' = Windows(0, BT)
                 ELSE bpc' = "view_error" /\ UNCHANGED batch_xy
    /\ UNCHANGED <<tokens, batch_in>>
    /\ BatchFrame

\* a later next(): resume after the yield, advance i, and run to the next yield
BatchNextCall ==
    /\ bpc = "yielded"
    /\ LET BT == batch_in.B * batch_in.T
           i == NextStart(batch_i, BT, Len(tokens))
       IN /\ batch_i' = i
          /\ IF Viewable(Windows(i, BT), BT)
             THEN bpc' = "yielded" /\ batch_xy' = Windows(i, BT)
             ELSE bpc' = "view_error" /\ UNCHANGED batch_xy
    /\ UNCHANGED <<tokens, batch_in>>
    /\ BatchFrame

BatchNext == BatchFirstNext \/ BatchNextCall

SpecBatch == BatchInit /\ [][BatchNext]_vars

\* C13 (state part): every batch handed out is x = tokens[i : i+B*T] and
\* y = tokens[i+1 : i+B*T+1] for a start i that is a multiple of B*T with
\* i + B*T + 1 <= len(tokens); both windows are full and y is x shifted by
\* one; with too few tokens the first next() fails and no batch is handed out.
C13_Inv ==
    LET BT == batch_in.B * batch_in.T
        N == Len(tokens)
    IN /\ bpc # "view_error"
       /\ bpc = "yielded" =>
            /\ batch_i % BT = 0
            /\ batch_i + BT + 1 <= N
            /\ Len(batch_xy.x) = BT /\ Len(batch_xy.y) = BT
            /\ \A j \in 1 .. BT :
                 /\ batch_xy.x[j] = tokens[batch_i + j]
                 /\ batch_xy.y[j] = tokens[batch_i + j + 1]
            /\ \A j \in 1 .. BT - 1 : batch_xy.y[j] = batch_xy.x[j + 1]
       /\ (bpc \notin {"idle", "created"} /\ BT + 1 > N) =>
            bpc = "assertion_error" /\ batch_xy = NoBatch
       /\ (bpc # "idle" /\ BT + 1 <= N) => bpc # "assertion_error"

\* C13 (step part): from one batch to the next the start index either moves
\* on by B*T or goes back to 0.
C13_Step ==
    (bpc = "yielded" /\ bpc' = "yielded") =>
        batch_i' \in {batch_i + batch_in.B * batch_in.T, 0}

\* C13: whatever the number of next() calls, the get_batch iterator hands out
\* full, in-bounds, one-token-shifted windows at multiples of B*T, wrapping to
\* 0 rather than reading past the end; with B*T + 1 > len(tokens) it fails on
\* first use.
C13_BatchWindows == []C13_Inv /\ [][C13_Step]_vars

C13_Witness ==
    /\ bpc = "yielded"
    /\ batch_in.B = 2 /\ batch_in.T = 2
    /\ batch_i = 4
    /\ batch_xy.y[4] = tokens[9]
    /\ Len(tokens) = 10


-----------------------------------------------------------------------------
(* __main__: the driver *)
MaxIterations == 2

\* values of the integer command-line flags
FlagValues == {0, 1, 2}

\* a test that forgets the inference-only flag
Stage1EnabledAlways(a) == a.write_tensors # 0

\* if not args.inference_only and args.write_tensors
Stage1Enabled(a) == a.inference_only = 0 /\ a.write_tensors # 0

\* if not args.inference_only (inside the training loop)
Trains(a) == a.inference_only = 0

Did(log, what) == log \o what

MainFrame == UNCHANGED <<config, gen_vars, fwd_vars, load_vars, ser_vars, tok_vars, batch_vars>>

\* args = parser.parse_args()
MainInit ==
    /\ config = LoadConfig
    /\ args \in [write_tensors : FlagValues, inference_only : FlagValues,
                 num_iterations : 0 .. MaxIterations]
    /\ mpc = "tokenizer" /\ main_iter = 0 /\ events = <<>>
    /\ GenIdle /\ FwdIdle /\ LoadIdle /\ SerIdle /\ TokIdle /\ BatchIdle

\* write_tokenizer(enc, "gpt2_tokenizer.bin")
MainWriteTokenizer ==
    /\ mpc = "tokenizer"
    /\ events' = Did(events, <<"write_tokenizer">>)
    /\ mpc' = "load"
    /\ UNCHANGED <<args, main_iter>>
    /\ MainFrame

\* model = GPT.from_pretrained("gpt2"): returns a model or raises
MainLoadModel ==
    /\ mpc = "load"
    /\ \E ok \in BOOLEAN :
         IF ok THEN /\ events' = Did(events, <<"from_pretrained">>)
                    /\ mpc' = "data"
               ELSE /\ mpc' = "aborted"
                    /\ UNCHANGED events
    /\ UNCHANGED <<args, main_iter>>
    /\ MainFrame

\* the dataset asserts, the token buffer and the first next(data_iter)
MainLoadData ==
    /\ mpc = "data"
    /\ \E ok \in BOOLEAN :
         IF ok THEN /\ events' = Did(events, <<"next_batch">>)
                    /\ mpc' = "stage1"
               ELSE /\ mpc' = "aborted"
                    /\ UNCHANGED events
    /\ UNCHANGED <<args, main_iter>>
    /\ MainFrame

\* STAGE 1 taken: logits, loss = model(x, y); loss.backward()
MainStage1Forward ==
    /\ mpc = "stage1"
    /\ Stage1Enabled(args)
    /\ events' = Did(events, <<"forward", "backward">>)
    /\ mpc' = "write_model"
    /\ UNCHANGED <<args, main_iter>>
    /\ MainFrame

\* write_model(model, "gpt2_124M.bin", dtype="float32")
MainWriteModel ==
    /\ mpc = "write_model"
    /\ events' = Did(events, <<"write_model">>)
    /\ mpc' = "write_state"
    /\ UNCHANGED <<args, main_iter>>
    /\ MainFrame

\* write_state(model, x, y, logits, loss, "gpt2_124M_debug_state.bin")
MainWriteState ==
    /\ mpc = "write_state"
    /\ events' = Did(events, <<"write_state">>)
    /\ mpc' = "stage2"
    /\ UNCHANGED <<args, main_iter>>
    /\ MainFrame

\* STAGE 1 not taken
MainStage1Skip ==
    /\ mpc = "stage1"
    /\ ~Stage1Enabled(args)
    /\ mpc' = "stage2"
    /\ UNCHANGED <<args, main_iter, events>>
    /\ MainFrame

\* one iteration of: for i in range(args.num_iterations)
MainTrainIter ==
    /\ mpc = "stage2"
    /\ main_iter < args.num_iterations
    /\ events' = IF Trains(args)
                 THEN Did(events, <<"forward", "zero_grad", "backward", "optimizer_step">>)
                 ELSE Did(events, <<"forward">>)
    /\ main_iter' = main_iter + 1
    /\ UNCHANGED <<args, mpc>>
    /\ MainFrame

\* STAGE 3: model.generate(x, max_new_tokens, ...)
MainGenerate ==
    /\ mpc = "stage2"
    /\ main_iter >= args.num_iterations
    /\ events' = Did(events, <<"generate">>)
    /\ mpc' = "done"
    /\ UNCHANGED <<args, main_iter>>
    /\ MainFrame

MainNext ==
    \/ MainWriteTokenizer \/ MainLoadModel \/ MainLoadData
    \/ MainStage1Forward \/ MainWriteModel \/ MainWriteState \/ MainStage1Skip
    \/ MainTrainIter \/ MainGenerate

SpecMain == MainInit /\ [][MainNext]_vars

-----------------------------------------------------------------------------
(* Claim about the driver *)
C11_At(what) == {i \in DOMAIN events : events[i] = what}

\* C11: in any run the files are written in the order tokenizer, parameter
\* checkpoint, debug state; the debug state is written at most once, after
\* exactly the first forward and backward pass and before any optimizer step,
\* and only when tensor writing is requested and the run is not inference-only
\* (otherwise neither the checkpoint nor the debug state is written).
C11_WriteOrder ==
    /\ Cardinality(C11_At("write_state")) <= 1
    /\ Cardinality(C11_At("write_model")) <= 1
    /\ \A t \in C11_At("write_tokenizer"), m \in C11_At("write_model") : t < m
    /\ \A t \in C11_At("write_tokenizer"), s \in C11_At("write_state") : t < s
    /\ \A s \in C11_At("write_state") :
         /\ \E m \in C11_At("write_model") : m < s
         /\ Cardinality({f \in C11_At("forward") : f < s}) = 1
         /\ Cardinality({b \in C11_At("backward") : b < s}) = 1
         /\ \A f \in C11_At("forward"), b \in C11_At("backward") : (f < s /\ b < s) => f < b
         /\ \A o \in C11_At("optimizer_step") : s < o
    /\ (C11_At("write_model") # {} \/ C11_At("write_state") # {}) =>
         /\ args.write_tensors # 0
         /\ args.inference_only = 0
         /\ C11_At("write_tokenizer") # {}
    /\ (mpc = "done" /\ args.write_tensors # 0 /\ args.inference_only = 0) =>
         /\ C11_At("write_model") # {}
         /\ C11_At("write_state") # {}

C11_Witness ==
    /\ mpc = "done"
    /\ args.num_iterations >= 2
    /\ Cardinality(C11_At("write_state")) = 1
    /\ Cardinality(C11_At("optimizer_step")) >= 2

====
